---- MODULE Spec2Model ----
(***************************************************************************)
(* Model of Config/Agent.py: the Agent facade over the agents/ directory   *)
(* (config.json, memories/ and tasks/ per agent folder, <name>.yaml memory *)
(* documents), the commands/ plugin directory and model-prompts/.          *)
(*                                                                         *)
(* The filesystem is one record `fs`; every facade instance (session) has  *)
(* its own in-memory fields.  Python values are tagged pairs of strings so *)
(* that False, "false" and None stay distinct; JSON and YAML texts are     *)
(* modelled as token structures produced by the dumpers and consumed by    *)
(* the loaders.                                                            *)
(***************************************************************************)
EXTENDS Integers, Sequences, FiniteSets, TLC

VARIABLES
    fs,            \* the agents/ tree: [agents, folder, config, memory,
                   \*                    memories, tasksDir, tasks]
    commandsDir,   \* commands/*.py in enumeration order
    modelPrompts,  \* the model names that have a folder under model-prompts/
    pc,            \* per session: where the facade is
    AGENT_NAME,    \* per session: self.AGENT_NAME
    AGENT_CONFIG,  \* per session: self.AGENT_CONFIG
    attrs,         \* per session: the AI fields the constructor has assigned
    memory,        \* per session: self.memory
    regens,        \* per session: add_agent calls made by the running get_agent_config
    entry,         \* per session: the filesystem when the running call was entered
    loaded,        \* per session: what load_memory found and yielded at construction
    calls,         \* per session: the interactions log_interaction has appended so far
    last,          \* the call that returned last
    prev           \* the call that returned before it

vars == <<fs, commandsDir, modelPrompts, pc, AGENT_NAME, AGENT_CONFIG, attrs, memory,
          regens, entry, loaded, calls, last, prev>>

----------------------------------------------------------------------------
(* Bounds and input sets *)

MaxInteractions == 2
MaxRegens == 2
MaxTaskChars == 7
MaxModules == 4

Names == {"Bot1", "Bot2"}
Sessions == {"s1", "s2"}
Roles == {"USER"}
Messages == {"hi", "true"}

Range(q) == {q[i] : i \in DOMAIN q}

----------------------------------------------------------------------------
(* Python values *)

PyFalse == <<"bool", "False">>
PyTrue == <<"bool", "True">>
PyNone == <<"NoneType", "None">>
PyStr(s) == <<"str", s>>
PyInt(digits) == <<"int", digits>>
PyFloat(digits) == <<"float", digits>>

EmptyDict == [k \in {} |-> PyNone]

\* the number literals that carry no fraction or exponent
IntLiterals == {"2000", "1000"}

----------------------------------------------------------------------------
(* json.dumps / json.loads on the two-level config document *)

JsonEncodeValue(v) ==
    CASE v[1] = "bool" -> <<"literal", IF v = PyTrue THEN "true" ELSE "false">>
      [] v[1] = "NoneType" -> <<"literal", "null">>
      [] v[1] = "str" -> <<"string", v[2]>>
      [] OTHER -> <<"number", v[2]>>

JsonDecodeValue(t) ==
    CASE t = <<"literal", "true">> -> PyTrue
      [] t = <<"literal", "false">> -> PyFalse
      [] t = <<"literal", "null">> -> PyNone
      [] t[1] = "string" -> PyStr(t[2])
      [] OTHER -> IF t[2] \in IntLiterals THEN PyInt(t[2]) ELSE PyFloat(t[2])

JsonDumps(doc) ==
    [kind |-> "json",
     obj |-> [k \in DOMAIN doc |-> [j \in DOMAIN doc[k] |-> JsonEncodeValue(doc[k][j])]]]

JsonLoads(text) ==
    [k \in DOMAIN text.obj |->
        [j \in DOMAIN text.obj[k] |-> JsonDecodeValue(text.obj[k][j])]]

NoFile == [kind |-> "absent", obj |-> EmptyDict]
EmptyText == [kind |-> "empty", obj |-> EmptyDict]
BlankText == [kind |-> "blank", obj |-> EmptyDict]
MalformedText == [kind |-> "malformed", obj |-> EmptyDict]

\* Strip without the strip: whitespace-only content stays as it is
StripNothing(text) == text

\* str.strip(): whitespace-only content becomes the empty string
Strip(text) == IF text.kind = "blank" THEN EmptyText ELSE text

----------------------------------------------------------------------------
(* yaml.safe_dump / yaml.safe_load on the memory document *)

\* the plain scalars the YAML resolver reads as something other than a string
YamlBoolWords == {"true", "false"}
YamlNullWords == {"null", ""}

\* YamlRepresentStr with every string written as a plain scalar
YamlRepresentStrPlain(v) == <<"plain", v[2]>>

YamlRepresentStr(v) ==
    IF v[2] \in YamlBoolWords \cup YamlNullWords
    THEN <<"quoted", v[2]>>
    ELSE <<"plain", v[2]>>

YamlConstructScalar(t) ==
    IF t[1] = "quoted" THEN PyStr(t[2])
    ELSE IF t[2] \in YamlBoolWords
         THEN (IF t[2] = "true" THEN PyTrue ELSE PyFalse)
         ELSE IF t[2] \in YamlNullWords THEN PyNone ELSE PyStr(t[2])

NoMemoryFile == [kind |-> "absent", items |-> <<>>]
EmptyYaml == [kind |-> "empty", items |-> <<>>]
MalformedYaml == [kind |-> "malformed", items |-> <<>>]

MemoryNone == [kind |-> "NoneType", interactions |-> <<>>]
MemoryDict(seq) == [kind |-> "dict", interactions |-> seq]

YamlSafeDump(mem) ==
    [kind |-> "yaml",
     items |-> [i \in DOMAIN mem.interactions |->
                  [role |-> YamlRepresentStr(mem.interactions[i].role),
                   message |-> YamlRepresentStr(mem.interactions[i].message)]]]

\* defined for the texts that parse: an empty stream loads as None
YamlSafeLoad(text) ==
    IF text.kind = "empty"
    THEN MemoryNone
    ELSE MemoryDict([i \in DOMAIN text.items |->
                       [role |-> YamlConstructScalar(text.items[i].role),
                        message |-> YamlConstructScalar(text.items[i].message)]])

Interaction(role, message) == [role |-> PyStr(role), message |-> PyStr(message)]

----------------------------------------------------------------------------
(* The plugin directory and load_commands *)

ParameterEmpty == <<"empty", "Parameter.empty">>

WebSearch ==
    [name |-> "web_search",
     parameters |-> <<[name |-> "query", default |-> ParameterEmpty],
                      [name |-> "limit", default |-> PyInt("1000")]>>]
ReadPage == [name |-> "read_page",
             parameters |-> <<[name |-> "url", default |-> ParameterEmpty]>>]

\* a module of commands/: whether importing and instantiating it works, whether
\* the instance has a `commands` attribute, and that mapping's items in order
SearchModule ==
    [stem |-> "search", loads |-> TRUE, hasCommands |-> TRUE,
     commands |-> <<[display |-> "Web Search", function |-> WebSearch],
                    [display |-> "Read Page", function |-> ReadPage]>>]
SendEmail == [name |-> "send_email",
              parameters |-> <<[name |-> "to", default |-> ParameterEmpty],
                               [name |-> "subject", default |-> PyStr("")]>>]
MailModule ==
    [stem |-> "mail", loads |-> TRUE, hasCommands |-> TRUE,
     commands |-> <<[display |-> "Send Email", function |-> SendEmail]>>]
UtilModule ==
    [stem |-> "util", loads |-> TRUE, hasCommands |-> FALSE, commands |-> <<>>]
BrokenModule ==
    [stem |-> "broken", loads |-> FALSE, hasCommands |-> FALSE, commands |-> <<>>]

PluginDirs ==
    {<<>>, <<SearchModule, UtilModule>>, <<UtilModule, BrokenModule>>}

\* the plugin directories discovery is run over: up to MaxModules of the
\* modules, each at most once, in any enumeration order
Modules == {SearchModule, MailModule, UtilModule, BrokenModule}
Directories ==
    UNION {{d \in [1..k -> Modules] : \A i, j \in 1..k : d[i] = d[j] => i = j} :
              k \in 0..MaxModules}

get_command_params(func) ==
    [p \in {q.name : q \in Range(func.parameters)} |->
        LET q == CHOOSE x \in Range(func.parameters) : x.name = p
        IN IF q.default = ParameterEmpty THEN PyNone ELSE q.default]

ModuleEntries(module) ==
    [i \in DOMAIN module.commands |->
        <<module.commands[i].display,
          module.commands[i].function.name,
          get_command_params(module.commands[i].function)>>]

\* LoadCommandsFrom without the hasattr test: reading `commands` of an instance
\* that has none raises AttributeError
RECURSIVE LoadCommandsFromStrict(_, _)
LoadCommandsFromStrict(command_files, commands) ==
    IF command_files = <<>>
    THEN [raised |-> FALSE, commands |-> commands]
    ELSE LET module == Head(command_files)
         IN IF ~module.loads \/ ~module.hasCommands
            THEN [raised |-> TRUE, commands |-> <<>>]
            ELSE LoadCommandsFromStrict(Tail(command_files),
                                        commands \o ModuleEntries(module))

\* LoadCommandsFrom with the import and instantiation inside try/except: a
\* module that fails is left out
RECURSIVE LoadCommandsFromSkipping(_, _)
LoadCommandsFromSkipping(command_files, commands) ==
    IF command_files = <<>>
    THEN [raised |-> FALSE, commands |-> commands]
    ELSE LET module == Head(command_files)
         IN LoadCommandsFromSkipping(
                Tail(command_files),
                IF module.loads /\ module.hasCommands
                THEN commands \o ModuleEntries(module)
                ELSE commands)

\* [raised, commands]: the first module that fails to import or instantiate
\* ends the call
RECURSIVE LoadCommandsFrom(_, _)
LoadCommandsFrom(command_files, commands) ==
    IF command_files = <<>>
    THEN [raised |-> FALSE, commands |-> commands]
    ELSE LET module == Head(command_files)
         IN IF ~module.loads
            THEN [raised |-> TRUE, commands |-> <<>>]
            ELSE LoadCommandsFrom(
                     Tail(command_files),
                     IF module.hasCommands
                     THEN commands \o ModuleEntries(module)
                     ELSE commands)

load_commands == LoadCommandsFrom(commandsDir, <<>>)

\* the display names of the catalog
CatalogNames == {c[1] : c \in Range(load_commands.commands)}

----------------------------------------------------------------------------
(* Filesystem operations: each takes the tree f and yields the tree after *)

\* the file stems under agents/<name>/tasks: the objectives callers pass and the
\* uuid4 names save_task_output makes up
Objectives == {"plan", "report"}
Uuids == {"uuid-1"}
TaskFiles == Objectives \cup Uuids

\* the chunks of text written as task output
Outputs == {"Hello", " world"}

NoTask == [exists |-> FALSE, text |-> ""]
TaskText(text) == [exists |-> TRUE, text |-> text]

ConfigExists(f, n) == f.config[n].kind # "absent"
MemoryExists(f, n) == f.memory[n].kind # "absent"

create_agent_folder(f, agent_name) ==
    [f EXCEPT !.agents = TRUE, !.folder[agent_name] = TRUE]

create_agent_config_file(f, agent_name, provider_settings, commands) ==
    [f EXCEPT !.agents = TRUE,
              !.folder[agent_name] = TRUE,
              !.config[agent_name] =
                  JsonDumps([commands |-> commands, settings |-> provider_settings])]

\* CommandDict keyed by the callable's name instead of the display name
CommandDictByFunctionName(commands_list) ==
    [command_name \in {c[2] : c \in Range(commands_list)} |-> PyFalse]

\* add_agent's command_dict
CommandDict(commands_list) ==
    [friendly_name \in {c[1] : c \in Range(commands_list)} |-> PyFalse]

\* [raised, fs]: load_commands may raise after the folder was created
add_agent(f, agent_name, provider_settings) ==
    LET f1 == create_agent_folder(f, agent_name)
        lc == load_commands
    IN IF lc.raised
       THEN [raised |-> TRUE, fs |-> f1]
       ELSE [raised |-> FALSE,
             fs |-> create_agent_config_file(
                        f1, agent_name, provider_settings, CommandDict(lc.commands))]

\* One pass of get_agent_config's `while True` body:
\* [state, value, fs] with state "return", "raise" or "loop".
GetAgentConfigPass(f, n) ==
    LET file_content == Strip(f.config[n])
        added == add_agent(f, n, EmptyDict)
        regenerated ==
            IF added.raised
            THEN [state |-> "raise", value |-> EmptyDict, fs |-> added.fs]
            ELSE [state |-> "loop", value |-> EmptyDict, fs |-> added.fs]
    IN IF ConfigExists(f, n)
       THEN IF file_content.kind # "empty"
            THEN IF file_content.kind = "json"
                 THEN [state |-> "return", value |-> JsonLoads(file_content), fs |-> f]
                 ELSE [state |-> "raise", value |-> EmptyDict, fs |-> f]
            ELSE regenerated
       ELSE regenerated

\* DictUpdate with the keys already present kept (dict.setdefault per key)
DictUpdateKeepingCurrent(current, new) ==
    [k \in DOMAIN current \cup DOMAIN new |->
        IF k \in DOMAIN current THEN current[k] ELSE new[k]]

\* dict.update
DictUpdate(current, new) ==
    [k \in DOMAIN current \cup DOMAIN new |->
        IF k \in DOMAIN new THEN new[k] ELSE current[k]]

\* update_agent_config that creates the document when there is none
update_agent_config_creating(f, agent_name, new_config) ==
    IF ConfigExists(f, agent_name)
    THEN IF f.config[agent_name].kind # "json"
         THEN [outcome |-> "raise", before |-> EmptyDict, fs |-> f]
         ELSE LET read == JsonLoads(f.config[agent_name])
                  updated ==
                      [k \in DOMAIN read \cup {"settings"} |->
                          IF k # "settings" THEN read[k]
                          ELSE IF "settings" \in DOMAIN read
                               THEN DictUpdate(read["settings"], new_config)
                               ELSE new_config]
              IN [outcome |-> "updated",
                  before |-> read,
                  fs |-> [f EXCEPT !.config[agent_name] = JsonDumps(updated)]]
    ELSE [outcome |-> "updated",
          before |-> EmptyDict,
          fs |-> create_agent_config_file(f, agent_name, new_config, EmptyDict)]

\* [outcome, before, fs] with outcome "updated", "not found" or "raise";
\* before is the document as json.load read it
update_agent_config(f, agent_name, new_config) ==
    IF ConfigExists(f, agent_name)
    THEN IF f.config[agent_name].kind # "json"
         THEN [outcome |-> "raise", before |-> EmptyDict, fs |-> f]
         ELSE LET read == JsonLoads(f.config[agent_name])
                  current_config ==
                      IF "settings" \notin DOMAIN read
                      THEN [k \in DOMAIN read \cup {"settings"} |->
                              IF k = "settings" THEN EmptyDict ELSE read[k]]
                      ELSE read
                  updated ==
                      [current_config EXCEPT
                          !["settings"] = DictUpdate(current_config["settings"], new_config)]
              IN [outcome |-> "updated",
                  before |-> read,
                  fs |-> [f EXCEPT !.config[agent_name] = JsonDumps(updated)]]
    ELSE [outcome |-> "not found", before |-> EmptyDict, fs |-> f]

\* shutil.rmtree of agents/<agent_name>
RemoveFolder(f, agent_name) ==
    [f EXCEPT !.folder[agent_name] = FALSE,
              !.config[agent_name] = NoFile,
              !.memories[agent_name] = FALSE,
              !.tasksDir[agent_name] = FALSE,
              !.tasks[agent_name] = [o \in TaskFiles |-> NoTask]]

\* delete_agent without the except clause: os.remove's FileNotFoundError
\* propagates (status 0 stands for the exception)
delete_agent_unguarded(f, agent_name) ==
    IF ~MemoryExists(f, agent_name)
    THEN [status |-> 0, fs |-> f]
    ELSE [status |-> 200,
          fs |-> IF f.folder[agent_name]
                 THEN RemoveFolder([f EXCEPT !.memory[agent_name] = NoMemoryFile],
                                   agent_name)
                 ELSE [f EXCEPT !.memory[agent_name] = NoMemoryFile]]

\* delete_agent that removes the folder before it tries the memory file
delete_agent_folder_first(f, agent_name) ==
    LET f1 == IF f.folder[agent_name] THEN RemoveFolder(f, agent_name) ELSE f
    IN IF ~MemoryExists(f, agent_name)
       THEN [status |-> 404, fs |-> f1]
       ELSE [status |-> 200, fs |-> [f1 EXCEPT !.memory[agent_name] = NoMemoryFile]]

\* delete_agent that removes the memory file and leaves the folder
delete_agent_file_only(f, agent_name) ==
    IF ~MemoryExists(f, agent_name)
    THEN [status |-> 404, fs |-> f]
    ELSE [status |-> 200, fs |-> [f EXCEPT !.memory[agent_name] = NoMemoryFile]]

\* [status, fs]
delete_agent(f, agent_name) ==
    IF ~MemoryExists(f, agent_name)
    THEN [status |-> 404, fs |-> f]
    ELSE [status |-> 200,
          fs |-> IF f.folder[agent_name]
                 THEN RemoveFolder([f EXCEPT !.memory[agent_name] = NoMemoryFile],
                                   agent_name)
                 ELSE [f EXCEPT !.memory[agent_name] = NoMemoryFile]]

\* whether agents/<n> holds anything (os.rename refuses a non-empty target)
FolderEmpty(f, n) == ~ConfigExists(f, n) /\ ~f.memories[n] /\ ~f.tasksDir[n]

\* os.rename of agents/<agent_name>.yaml onto agents/<new_name>.yaml
MoveMemory(f, agent_name, new_name) ==
    IF new_name = agent_name
    THEN f
    ELSE [f EXCEPT !.memory[new_name] = f.memory[agent_name],
                   !.memory[agent_name] = NoMemoryFile]

\* os.rename of agents/<agent_name> onto agents/<new_name>
MoveFolder(f, agent_name, new_name) ==
    IF new_name = agent_name
    THEN f
    ELSE RemoveFolder([f EXCEPT !.folder[new_name] = TRUE,
                                !.config[new_name] = f.config[agent_name],
                                !.memories[new_name] = f.memories[agent_name],
                                !.tasksDir[new_name] = f.tasksDir[agent_name],
                                !.tasks[new_name] = f.tasks[agent_name]],
                      agent_name)

\* [raised, fs]: the memory file is moved first (replacing a file already at
\* the target), then the folder; OSError when the target folder is not empty
rename_agent(f, agent_name, new_name) ==
    LET f1 == IF MemoryExists(f, agent_name)
              THEN MoveMemory(f, agent_name, new_name)
              ELSE f
    IN IF ~f1.folder[agent_name]
       THEN [raised |-> FALSE, fs |-> f1]
       ELSE IF new_name # agent_name /\ f1.folder[new_name]
                  /\ ~FolderEmpty(f1, new_name)
            THEN [raised |-> TRUE, fs |-> f1]
            ELSE [raised |-> FALSE, fs |-> MoveFolder(f1, agent_name, new_name)]

\* the raw text of the memory document; "" when there is none
get_chat_history(f, agent_name) ==
    IF ~MemoryExists(f, agent_name) THEN EmptyYaml ELSE f.memory[agent_name]

\* wipe_agent_memories that removes the whole agent folder
wipe_agent_memories_folder(f, agent_name) ==
    IF f.memories[agent_name] THEN RemoveFolder(f, agent_name) ELSE f

wipe_agent_memories(f, agent_name) ==
    IF f.memories[agent_name] THEN [f EXCEPT !.memories[agent_name] = FALSE] ELSE f

get_task_output(f, agent_name, primary_objective) ==
    IF primary_objective = PyNone
    THEN "No primary objective specified."
    ELSE LET file == f.tasks[agent_name][primary_objective[2]]
         IN IF file.exists THEN file.text ELSE ""

\* save_task_output that always opens the file with mode "w"
save_task_output_truncating(f, agent_name, task_output, primary_objective, uuid4) ==
    IF ~f.folder[agent_name]
    THEN [raised |-> TRUE, value |-> "", fs |-> f]
    ELSE LET stem == IF primary_objective = PyNone THEN uuid4
                     ELSE primary_objective[2]
         IN [raised |-> FALSE,
             value |-> task_output,
             fs |-> [f EXCEPT !.tasksDir[agent_name] = TRUE,
                              !.tasks[agent_name][stem] = TaskText(task_output)]]

\* [raised, value, fs]: os.listdir raises when agents/<agent_name> is missing;
\* uuid4 is the name made up when no objective is given
save_task_output(f, agent_name, task_output, primary_objective, uuid4) ==
    IF ~f.folder[agent_name]
    THEN [raised |-> TRUE, value |-> "", fs |-> f]
    ELSE LET stem == IF primary_objective = PyNone THEN uuid4
                     ELSE primary_objective[2]
             file == f.tasks[agent_name][stem]
         IN [raised |-> FALSE,
             value |-> task_output,
             fs |-> [f EXCEPT !.tasksDir[agent_name] = TRUE,
                              !.tasks[agent_name][stem] =
                                  IF file.exists
                                  THEN TaskText(file.text \o task_output)
                                  ELSE TaskText(task_output)]]

\* the keys of `keys` that the config document has at its top level, with
\* the values found there
load_agent_config_keys(config, keys) ==
    [key \in keys \cap DOMAIN config |-> config[key]]

AIKeys == {"AI_MODEL", "AI_TEMPERATURE", "MAX_TOKENS"}

\* The AI configuration block of the constructor: [raised, attrs] with attrs
\* the fields among AIKeys it assigned; raised when the prompt templates of the
\* chosen model cannot be opened.
ApplySettings(config, prompts) ==
    IF "settings" \notin DOMAIN config
    THEN [raised |-> FALSE, attrs |-> EmptyDict]
    ELSE LET PROVIDER_SETTINGS == config["settings"]
             fromKeys == load_agent_config_keys(config, AIKeys)
             chosen == IF "AI_MODEL" \in DOMAIN PROVIDER_SETTINGS
                       THEN PROVIDER_SETTINGS["AI_MODEL"]
                       ELSE PyStr("openassistant")
             AI_MODEL == IF chosen[2] \in prompts THEN chosen ELSE PyStr("default")
         IN [raised |-> AI_MODEL[2] \notin prompts,
             attrs |-> [key \in DOMAIN fromKeys \cup {"AI_MODEL"} |->
                          IF key = "AI_MODEL" THEN AI_MODEL ELSE fromKeys[key]]]

\* [raised, memory, fs]
load_memory(f, n) ==
    IF MemoryExists(f, n)
    THEN IF f.memory[n].kind = "malformed"
         THEN [raised |-> TRUE, memory |-> MemoryNone, fs |-> f]
         ELSE [raised |-> FALSE, memory |-> YamlSafeLoad(f.memory[n]), fs |-> f]
    ELSE [raised |-> FALSE,
          memory |-> MemoryDict(<<>>),
          fs |-> [f EXCEPT !.memory[n] = YamlSafeDump(MemoryDict(<<>>))]]

save_memory(f, n, mem) == [f EXCEPT !.agents = TRUE, !.memory[n] = YamlSafeDump(mem)]

\* log_interaction that reads the document back from disk before appending
log_interaction_reloading(f, n, mem, role, message) ==
    IF mem.kind # "dict"
    THEN [raised |-> TRUE, memory |-> mem, fs |-> f]
    ELSE LET onDisk == IF f.memory[n].kind = "yaml"
                       THEN YamlSafeLoad(f.memory[n]).interactions
                       ELSE mem.interactions
             appended == MemoryDict(Append(onDisk, Interaction(role, message)))
         IN [raised |-> FALSE, memory |-> appended, fs |-> save_memory(f, n, appended)]

\* log_interaction that only rewrites a memory file that is there (mode "r+")
log_interaction_existing_only(f, n, mem, role, message) ==
    IF mem.kind # "dict" \/ ~MemoryExists(f, n)
    THEN [raised |-> TRUE, memory |-> mem, fs |-> f]
    ELSE LET appended == MemoryDict(Append(mem.interactions, Interaction(role, message)))
         IN [raised |-> FALSE, memory |-> appended, fs |-> save_memory(f, n, appended)]

\* [raised, memory, fs]: None["interactions"] is a TypeError
log_interaction(f, n, mem, role, message) ==
    IF mem.kind # "dict"
    THEN [raised |-> TRUE, memory |-> mem, fs |-> f]
    ELSE LET appended == MemoryDict(Append(mem.interactions, Interaction(role, message)))
         IN [raised |-> FALSE, memory |-> appended, fs |-> save_memory(f, n, appended)]

----------------------------------------------------------------------------
(* States *)

\* a config document written by an earlier run
SavedDoc ==
    [commands |-> [c \in {"Web Search"} |-> PyTrue],
     settings |-> [provider |-> PyStr("openai"), AI_TEMPERATURE |-> PyFloat("0.4")]]

\* a memory document written by an earlier run
SavedMemory == MemoryDict(<<Interaction("USER", "earlier")>>)

InitialConfigs == {NoFile, EmptyText, BlankText, MalformedText, JsonDumps(SavedDoc)}
InitialMemories == {NoMemoryFile, EmptyYaml, MalformedYaml, YamlSafeDump(SavedMemory)}

\* the partial settings passed to update_agent_config
SettingsInputs ==
    {[AI_MODEL |-> PyStr("gpt-4")],
     [AI_MODEL |-> PyStr("vicuna"), MAX_TOKENS |-> PyInt("2000")]}

\* a tree is well formed when every file has its parent directories
WellFormed(f) ==
    \A n \in Names :
        /\ ConfigExists(f, n) => f.folder[n]
        /\ (f.folder[n] \/ MemoryExists(f, n)) => f.agents
        /\ (f.memories[n] \/ f.tasksDir[n]) => f.folder[n]
        /\ \A o \in TaskFiles : f.tasks[n][o].exists => f.tasksDir[n]

\* nothing of agent n is on disk
Unknown(f, n) == ~f.folder[n] /\ ~ConfigExists(f, n) /\ ~MemoryExists(f, n)

\* agent n was saved whole by an earlier run
Saved(f, n) ==
    /\ f.config[n] = JsonDumps(SavedDoc)
    /\ f.memory[n] = YamlSafeDump(SavedMemory)

NoSubfolders == [n \in Names |-> FALSE]
NoTasks == [n \in Names |-> [o \in TaskFiles |-> NoTask]]

\* the trees a run starts from: Bot1 in any condition, every other agent name
\* unknown or saved whole; no agent has memories or task outputs yet
InitialTrees ==
    {f \in [agents : BOOLEAN,
            folder : [Names -> BOOLEAN],
            config : [Names -> InitialConfigs],
            memory : [Names -> InitialMemories],
            memories : {NoSubfolders},
            tasksDir : {NoSubfolders},
            tasks : {NoTasks}] :
        /\ WellFormed(f)
        /\ \A m \in Names \ {"Bot1"} : Unknown(f, m) \/ Saved(f, m)}

\* the task outputs an earlier run left
SavedTasks == [o \in TaskFiles |-> IF o = "plan" THEN TaskText("Draft.") ELSE NoTask]

\* agent n saved whole, without and with memories and task outputs
SavedPlain(f, n) ==
    /\ Saved(f, n)
    /\ ~f.memories[n] /\ ~f.tasksDir[n] /\ f.tasks[n] = NoTasks[n]
SavedFull(f, n) ==
    /\ Saved(f, n)
    /\ f.memories[n] /\ f.tasksDir[n] /\ f.tasks[n] = SavedTasks

\* only the memory document of agent n is left
MemoryOnly(f, n) ==
    /\ ~f.folder[n]
    /\ f.memory[n] = YamlSafeDump(SavedMemory)

\* the folder of agent n is there, filled or empty, without a memory document
FolderOnly(f, n) ==
    /\ ~MemoryExists(f, n)
    /\ f.config[n] = JsonDumps(SavedDoc)
    /\ f.memories[n] /\ f.tasksDir[n] /\ f.tasks[n] = SavedTasks
EmptyFolder(f, n) ==
    /\ ~MemoryExists(f, n)
    /\ f.folder[n] /\ FolderEmpty(f, n) /\ f.tasks[n] = NoTasks[n]

\* the trees the lifecycle operations start from: every agent name whole,
\* partly there or unknown
FileTrees ==
    {f \in [agents : BOOLEAN,
            folder : [Names -> BOOLEAN],
            config : [Names -> {NoFile, JsonDumps(SavedDoc)}],
            memory : [Names -> {NoMemoryFile, YamlSafeDump(SavedMemory)}],
            memories : [Names -> BOOLEAN],
            tasksDir : [Names -> BOOLEAN],
            tasks : [Names -> {NoTasks["Bot1"], SavedTasks}]] :
        /\ WellFormed(f)
        /\ \A n \in Names :
              \/ Unknown(f, n) /\ f.tasks[n] = NoTasks[n]
              \/ SavedPlain(f, n) \/ SavedFull(f, n)
              \/ MemoryOnly(f, n) /\ f.tasks[n] = NoTasks[n]
              \/ FolderOnly(f, n) \/ EmptyFolder(f, n)}

\* the trees the task output operations start from
TaskTrees ==
    {f \in FileTrees :
        /\ Unknown(f, "Bot2")
        /\ Unknown(f, "Bot1") \/ SavedPlain(f, "Bot1") \/ SavedFull(f, "Bot1")}

\* what `entry` holds while no call is running
NoTree ==
    [agents |-> FALSE,
     folder |-> [n \in Names |-> FALSE],
     config |-> [n \in Names |-> NoFile],
     memory |-> [n \in Names |-> NoMemoryFile],
     memories |-> NoSubfolders,
     tasksDir |-> NoSubfolders,
     tasks |-> NoTasks]

\* A returned call: what it was entered with (its argument; whether the agent
\* folder, the memory file and the memories subfolder existed, what config.json
\* held and the task outputs there were), how it ended, what it returned.
NoCall == [op |-> "none", session |-> "none", name |-> "none", arg |-> EmptyDict,
           folder |-> FALSE, found |-> "absent", hadMemory |-> FALSE,
           hadMemories |-> FALSE, tasks |-> [o \in TaskFiles |-> NoTask],
           outcome |-> "none", value |-> EmptyDict, regens |-> 0]

Call(op, s, n, arg, pre, outcome, value, count) ==
    [op |-> op, session |-> s, name |-> n, arg |-> arg,
     folder |-> pre.folder[n], found |-> pre.config[n].kind,
     hadMemory |-> MemoryExists(pre, n),
     hadMemories |-> pre.memories[n], tasks |-> pre.tasks[n],
     outcome |-> outcome, value |-> value, regens |-> count]

Returned(call) == /\ last' = call
                  /\ prev' = last

NotLoaded == [found |-> "none", memory |-> MemoryNone]

\* the model-prompts/ folder as shipped
ModelPromptDirs == {"default", "openassistant", "gpt-4"}

\* no facade yet, over one of the given trees, plugin directories and
\* model-prompts/ folders
InitOver(trees, dirs, prompts) ==
    /\ fs \in trees
    /\ commandsDir \in dirs
    /\ modelPrompts \in prompts
    /\ attrs = [s \in Sessions |-> EmptyDict]
    /\ pc = [s \in Sessions |-> "none"]
    /\ AGENT_NAME = [s \in Sessions |-> "AgentLLM"]
    /\ AGENT_CONFIG = [s \in Sessions |-> EmptyDict]
    /\ memory = [s \in Sessions |-> MemoryNone]
    /\ regens = [s \in Sessions |-> 0]
    /\ entry = [s \in Sessions |-> NoTree]
    /\ loaded = [s \in Sessions |-> NotLoaded]
    /\ calls = [s \in Sessions |-> <<>>]
    /\ last = NoCall
    /\ prev = NoCall

InitFrom(trees, dirs) == InitOver(trees, dirs, {ModelPromptDirs})

Init == InitFrom(InitialTrees, PluginDirs)

----------------------------------------------------------------------------
(* Actions *)

\* One pass of get_agent_config for session s, entered with the tree `pre` and
\* `count` regenerations made so far; inCtor when the constructor is the caller
\* (an exception then leaves no facade behind).
ConfigPass(s, n, pre, count, inCtor) ==
    LET r == GetAgentConfigPass(fs, n)
    IN /\ r.state = "loop" => count < MaxRegens
       /\ fs' = r.fs
       /\ UNCHANGED <<commandsDir, modelPrompts, attrs, memory, loaded, calls>>
       /\ CASE r.state = "loop" ->
                 /\ pc' = [pc EXCEPT ![s] = IF inCtor THEN "ctor_config" ELSE "get_config"]
                 /\ regens' = [regens EXCEPT ![s] = count + 1]
                 /\ entry' = [entry EXCEPT ![s] = pre]
                 /\ UNCHANGED <<AGENT_CONFIG, last, prev>>
            [] r.state = "return" /\ inCtor ->
                 /\ pc' = [pc EXCEPT ![s] = "ctor_memory"]
                 /\ regens' = [regens EXCEPT ![s] = count]
                 /\ entry' = [entry EXCEPT ![s] = pre]
                 /\ AGENT_CONFIG' = [AGENT_CONFIG EXCEPT ![s] = r.value]
                 /\ Returned(Call("get_agent_config", s, n, EmptyDict, pre,
                                  "return", r.value, count))
            [] r.state = "return" /\ ~inCtor ->
                 /\ pc' = [pc EXCEPT ![s] = "ready"]
                 /\ regens' = [regens EXCEPT ![s] = 0]
                 /\ entry' = [entry EXCEPT ![s] = NoTree]
                 /\ Returned(Call("get_agent_config", s, n, EmptyDict, pre,
                                  "return", r.value, count))
                 /\ UNCHANGED AGENT_CONFIG
            [] r.state = "raise" ->
                 /\ pc' = [pc EXCEPT ![s] = IF inCtor THEN "failed" ELSE "ready"]
                 /\ regens' = [regens EXCEPT ![s] = 0]
                 /\ entry' = [entry EXCEPT ![s] = NoTree]
                 /\ Returned(Call("get_agent_config", s, n, EmptyDict, pre,
                                  "raise", EmptyDict, count))
                 /\ UNCHANGED AGENT_CONFIG

\* Agent(agent_name): lines 20-22, up to the first pass of get_agent_config
New(s, n) ==
    /\ pc[s] = "none"
    /\ AGENT_NAME' = [AGENT_NAME EXCEPT ![s] = n]
    /\ ConfigPass(s, n, fs, 0, TRUE)

\* a call of get_agent_config on the facade: its first pass
GetAgentConfig(s) ==
    /\ pc[s] = "ready"
    /\ UNCHANGED AGENT_NAME
    /\ ConfigPass(s, AGENT_NAME[s], fs, 0, FALSE)

\* the next pass of a get_agent_config that regenerated the document
GetAgentConfigAgain(s) ==
    /\ pc[s] \in {"ctor_config", "get_config"}
    /\ UNCHANGED AGENT_NAME
    /\ ConfigPass(s, AGENT_NAME[s], entry[s], regens[s], pc[s] = "ctor_config")

\* The rest of the constructor, lines 24-57: the AI fields, the prompt
\* templates, the parent of the memory file, load_memory, load_commands.  A
\* missing prompt template ends it before the memory file is looked at.
FinishInit(s) ==
    /\ pc[s] = "ctor_memory"
    /\ LET n == AGENT_NAME[s]
           ai == ApplySettings(AGENT_CONFIG[s], modelPrompts)
           lm == load_memory([fs EXCEPT !.agents = TRUE], n)
           ok == ~ai.raised /\ ~lm.raised /\ ~load_commands.raised
       IN /\ attrs' = [attrs EXCEPT ![s] = ai.attrs]
          /\ fs' = IF ai.raised THEN fs ELSE lm.fs
          /\ memory' = [memory EXCEPT ![s] =
                            IF ai.raised \/ lm.raised THEN @ ELSE lm.memory]
          /\ pc' = [pc EXCEPT ![s] = IF ok THEN "ready" ELSE "failed"]
          /\ loaded' = [loaded EXCEPT ![s] =
                            IF ai.raised
                            THEN @
                            ELSE [found |-> fs.memory[n].kind,
                                  memory |-> IF lm.raised THEN MemoryNone
                                             ELSE lm.memory]]
          /\ Returned(Call("__init__", s, n, EmptyDict, entry[s],
                           IF ok THEN "return" ELSE "raise",
                           AGENT_CONFIG[s], regens[s]))
    /\ regens' = [regens EXCEPT ![s] = 0]
    /\ entry' = [entry EXCEPT ![s] = NoTree]
    /\ UNCHANGED <<commandsDir, modelPrompts, AGENT_NAME, AGENT_CONFIG, calls>>

UpdateAgentConfig(s, new_config) ==
    /\ pc[s] = "ready"
    /\ LET r == update_agent_config(fs, AGENT_NAME[s], new_config)
       IN /\ fs' = r.fs
          /\ Returned(Call("update_agent_config", s, AGENT_NAME[s], new_config, fs,
                           r.outcome, r.before, 0))
    /\ UNCHANGED <<commandsDir, modelPrompts, pc, AGENT_NAME, AGENT_CONFIG, attrs, memory,
                   regens, entry,
                   loaded, calls>>

LogInteraction(s, role, message) ==
    /\ pc[s] = "ready"
    /\ Len(memory[s].interactions) < MaxInteractions
    /\ LET r == log_interaction(fs, AGENT_NAME[s], memory[s], role, message)
       IN /\ fs' = r.fs
          /\ memory' = [memory EXCEPT ![s] = r.memory]
          /\ calls' = [calls EXCEPT ![s] =
                          IF r.raised THEN @ ELSE Append(@, Interaction(role, message))]
          /\ Returned(Call("log_interaction", s, AGENT_NAME[s], EmptyDict, fs,
                           IF r.raised THEN "raise" ELSE "return", EmptyDict, 0))
    /\ UNCHANGED <<commandsDir, modelPrompts, pc, AGENT_NAME, AGENT_CONFIG, attrs,
                   regens, entry, loaded>>

DeleteAgent(s, agent_name) ==
    /\ pc[s] = "ready"
    /\ LET r == delete_agent(fs, agent_name)
       IN /\ fs' = r.fs
          /\ Returned(Call("delete_agent", s, agent_name, EmptyDict, fs,
                           CASE r.status = 200 -> "deleted"
                             [] r.status = 404 -> "not found"
                             [] OTHER -> "raise",
                           r.status, 0))
    /\ UNCHANGED <<commandsDir, modelPrompts, pc, AGENT_NAME, AGENT_CONFIG, attrs, memory,
                   regens, entry,
                   loaded, calls>>

RenameAgent(s, agent_name, new_name) ==
    /\ pc[s] = "ready"
    /\ LET r == rename_agent(fs, agent_name, new_name)
       IN /\ fs' = r.fs
          /\ Returned(Call("rename_agent", s, agent_name, new_name, fs,
                           IF r.raised THEN "raise" ELSE "return", EmptyDict, 0))
    /\ UNCHANGED <<commandsDir, modelPrompts, pc, AGENT_NAME, AGENT_CONFIG, attrs, memory,
                   regens, entry,
                   loaded, calls>>

GetChatHistory(s, agent_name) ==
    /\ pc[s] = "ready"
    /\ Returned(Call("get_chat_history", s, agent_name, EmptyDict, fs,
                     "return", get_chat_history(fs, agent_name), 0))
    /\ UNCHANGED <<fs, commandsDir, modelPrompts, pc, AGENT_NAME, AGENT_CONFIG, attrs,
                   memory, regens,
                   entry, loaded, calls>>

WipeAgentMemories(s, agent_name) ==
    /\ pc[s] = "ready"
    /\ fs' = wipe_agent_memories(fs, agent_name)
    /\ Returned(Call("wipe_agent_memories", s, agent_name, EmptyDict, fs,
                     "return", EmptyDict, 0))
    /\ UNCHANGED <<commandsDir, modelPrompts, pc, AGENT_NAME, AGENT_CONFIG, attrs, memory,
                   regens, entry,
                   loaded, calls>>

GetTaskOutput(s, agent_name, primary_objective) ==
    /\ pc[s] = "ready"
    /\ Returned(Call("get_task_output", s, agent_name,
                     [primary_objective |-> primary_objective], fs,
                     "return", get_task_output(fs, agent_name, primary_objective), 0))
    /\ UNCHANGED <<fs, commandsDir, modelPrompts, pc, AGENT_NAME, AGENT_CONFIG, attrs,
                   memory, regens,
                   entry, loaded, calls>>

\* the file grows by one chunk per call, up to MaxTaskChars characters; a uuid4
\* name is one no file has yet
SaveTaskOutput(s, agent_name, task_output, primary_objective) ==
    /\ pc[s] = "ready"
    /\ \E uuid4 \in Uuids :
          LET r == save_task_output(fs, agent_name, task_output, primary_objective,
                                    uuid4)
              stem == IF primary_objective = PyNone THEN uuid4
                      ELSE primary_objective[2]
          IN /\ Len(fs.tasks[agent_name][stem].text) < MaxTaskChars
             /\ primary_objective = PyNone => ~fs.tasks[agent_name][uuid4].exists
             /\ fs' = r.fs
             /\ Returned(Call("save_task_output", s, agent_name,
                              [task_output |-> task_output,
                               primary_objective |-> primary_objective], fs,
                              IF r.raised THEN "raise" ELSE "return", r.value, 0))
    /\ UNCHANGED <<commandsDir, modelPrompts, pc, AGENT_NAME, AGENT_CONFIG, attrs, memory,
                   regens, entry,
                   loaded, calls>>

\* a call of load_commands, as the constructor and add_agent make it
LoadCommands ==
    /\ LET r == load_commands
       IN Returned([NoCall EXCEPT !.op = "load_commands",
                                  !.session = "s1",
                                  !.outcome = IF r.raised THEN "raise" ELSE "return",
                                  !.value = r.commands])
    /\ UNCHANGED <<fs, commandsDir, modelPrompts, pc, AGENT_NAME, AGENT_CONFIG, attrs,
                   memory, regens,
                   entry, loaded, calls>>

\* the calls of a facade that touch the memory document or remove files
MemoryStep(s, names, messages) ==
    \/ \E n \in names : New(s, n)
    \/ GetAgentConfig(s)
    \/ GetAgentConfigAgain(s)
    \/ FinishInit(s)
    \/ \E role \in Roles, message \in messages : LogInteraction(s, role, message)
    \/ \E n \in names : DeleteAgent(s, n)

\* what a facade may do next, with its inputs drawn from the given sets
Step(s, names, settings, messages) ==
    \/ MemoryStep(s, names, messages)
    \/ \E new_config \in settings : UpdateAgentConfig(s, new_config)

\* one facade, every call running to its end before the next one starts
Next == Step("s1", Names, SettingsInputs, Messages)

Spec == Init /\ [][Next]_vars

\* Two facades on the same agent name, interleaved pass by pass and call by call;
\* each facade logs a message of its own.
InitRace == Init /\ Unknown(fs, "Bot2") /\ commandsDir = <<SearchModule, UtilModule>>

RaceMessages == [s \in Sessions |-> IF s = "s1" THEN {"hi"} ELSE {"true"}]

NextRace == \E s \in Sessions : MemoryStep(s, {"Bot1"}, RaceMessages[s])

SpecRace == InitRace /\ [][NextRace]_vars

\* One facade over agents that are whole, partly there or unknown: the
\* lifecycle operations, with construction and logging as in Spec.
InitFiles == InitFrom(FileTrees, {<<SearchModule, UtilModule>>})

NextFiles ==
    \/ \E n \in Names : New("s1", n)
    \/ GetAgentConfigAgain("s1")
    \/ FinishInit("s1")
    \/ LogInteraction("s1", "USER", "hi")
    \/ \E n \in Names : DeleteAgent("s1", n)
    \/ \E n \in Names, new_name \in Names : RenameAgent("s1", n, new_name)
    \/ \E n \in Names : GetChatHistory("s1", n)
    \/ \E n \in Names : WipeAgentMemories("s1", n)

SpecFiles == InitFiles /\ [][NextFiles]_vars

\* one facade saving and reading the task outputs of its agent
InitTasks == InitFrom(TaskTrees, {<<SearchModule, UtilModule>>})

ObjectiveInputs == {PyStr(o) : o \in Objectives} \cup {PyNone}

NextTasks ==
    \/ New("s1", "Bot1")
    \/ GetAgentConfigAgain("s1")
    \/ FinishInit("s1")
    \/ DeleteAgent("s1", "Bot1")
    \/ \E task_output \in Outputs, primary_objective \in ObjectiveInputs :
          SaveTaskOutput("s1", "Bot1", task_output, primary_objective)
    \/ \E primary_objective \in ObjectiveInputs :
          GetTaskOutput("s1", "Bot1", primary_objective)

SpecTasks == InitTasks /\ [][NextTasks]_vars

\* config documents with and without the AI settings
TunedDoc ==
    [commands |-> EmptyDict,
     settings |-> [provider |-> PyStr("openai"), AI_MODEL |-> PyStr("gpt-4"),
                   AI_TEMPERATURE |-> PyFloat("0.7"), MAX_TOKENS |-> PyInt("1000")]]
VicunaDoc ==
    [commands |-> EmptyDict, settings |-> [AI_MODEL |-> PyStr("vicuna")]]
BareDoc == [commands |-> [c \in {"Web Search"} |-> PyFalse], settings |-> EmptyDict]
CommandsOnlyDoc == [commands |-> [c \in {"Web Search"} |-> PyFalse]]

ConstructorConfigs ==
    InitialConfigs \cup
        {JsonDumps(doc) : doc \in {TunedDoc, VicunaDoc, BareDoc, CommandsOnlyDoc}}

\* Bot1 in any condition, with any of the config documents; nothing else
ConstructorTrees ==
    {f \in [agents : BOOLEAN,
            folder : [Names -> BOOLEAN],
            config : [Names -> ConstructorConfigs],
            memory : [Names -> InitialMemories],
            memories : {NoSubfolders},
            tasksDir : {NoSubfolders},
            tasks : {NoTasks}] :
        WellFormed(f) /\ Unknown(f, "Bot2")}

PromptDirSets == {{}, {"default"}, ModelPromptDirs}

\* the constructor alone, over every config document and model-prompts/ folder
InitConstructor == InitOver(ConstructorTrees, PluginDirs, PromptDirSets)

NextConstructor ==
    \/ New("s1", "Bot1")
    \/ GetAgentConfigAgain("s1")
    \/ FinishInit("s1")

SpecConstructor == InitConstructor /\ [][NextConstructor]_vars

\* command discovery alone, over every plugin directory
InitDiscovery == InitFrom({NoTree}, Directories)

NextDiscovery == LoadCommands

SpecDiscovery == InitDiscovery /\ [][NextDiscovery]_vars

----------------------------------------------------------------------------
(* Properties *)

\* the facade of the single-facade specification
Facade == "s1"

\* the document on disk for agent n, as json.loads reads it
DiskConfig(n) == JsonLoads(fs.config[n])

\* every catalog command disabled
AllDisabled == [c \in CatalogNames |-> PyFalse]

\* The call that returned last is `op` by the facade and no later call has
\* started: the state is the one the call left behind.
Settled(op) ==
    /\ last.op = op
    /\ last.session = Facade
    /\ pc[Facade] \in {"ready", "ctor_memory", "failed"}

\* C1: a call of get_agent_config regenerates the config document at most once;
\* a document that is still unreadable after that ends the call with an error
\* instead of a further regeneration.
C1_AtMostOneRegeneration == \A s \in Sessions : regens[s] <= 1

\* C2: entered with a config.json holding non-empty text that is not JSON,
\* get_agent_config does not fail: it returns a regenerated document with every
\* catalog command disabled, which is the document then on disk.
C2_MalformedConfigRegenerated ==
    (Settled("get_agent_config") /\ last.found = "malformed" /\ ~load_commands.raised)
        => /\ last.outcome = "return"
           /\ last.value.commands = AllDisabled
           /\ fs.config[last.name].kind = "json"
           /\ last.value = DiskConfig(last.name)

\* the default provider settings of a regenerated document
DefaultSettings ==
    [provider |-> PyStr("huggingchat"), AI_MODEL |-> PyStr("openassistant"),
     AI_TEMPERATURE |-> PyFloat("0.4"), MAX_TOKENS |-> PyInt("2000")]

\* get_agent_config returned for an agent that had neither folder nor config.json
ResolvedFresh(call) ==
    /\ call.op = "get_agent_config"
    /\ call.session = Facade
    /\ call.outcome = "return"
    /\ ~call.folder
    /\ call.found = "absent"

\* C4: with an empty catalog, get_agent_config of an agent that was never
\* created returns and persists {commands: {}, settings: the default provider
\* settings}.
C4_FreshDocumentHasDefaultSettings ==
    (Settled("get_agent_config") /\ ResolvedFresh(last) /\ commandsDir = <<>>)
        => /\ last.value = [commands |-> EmptyDict, settings |-> DefaultSettings]
           /\ DiskConfig(last.name) = last.value

\* C9: when the memory file exists but is empty or malformed, the constructor's
\* load_memory recovers: the facade comes up with a memory document whose
\* interactions sequence is empty.
C9_CorruptMemoryRecovered ==
    (Settled("__init__") /\ loaded[Facade].found \in {"empty", "malformed"}
        /\ ~load_commands.raised)
        => /\ last.outcome = "return"
           /\ memory[Facade] = MemoryDict(<<>>)

\* C3: where command discovery works, get_agent_config of an agent with neither
\* config.json nor folder returns, leaving the folder and a document whose
\* commands map has exactly the catalog's display names as keys, each False; the
\* get_agent_config that follows at once returns the same document and writes
\* nothing.
C3_FreshResolveIdempotent ==
    /\ (Settled("get_agent_config") /\ ~last.folder /\ last.found = "absent"
           /\ ~load_commands.raised)
          => /\ last.outcome = "return"
             /\ fs.folder[last.name]
             /\ fs.config[last.name].kind = "json"
             /\ DOMAIN DiskConfig(last.name).commands = CatalogNames
             /\ \A c \in CatalogNames : DiskConfig(last.name).commands[c] = PyFalse
             /\ last.value = DiskConfig(last.name)
    /\ (Settled("get_agent_config") /\ ResolvedFresh(prev))
          => /\ last.outcome = "return"
             /\ last.value = prev.value
             /\ last.regens = 0
             /\ fs.config[last.name] = JsonDumps(prev.value)

C3_Witness ==
    /\ Settled("get_agent_config")
    /\ ResolvedFresh(prev)
    /\ last.outcome = "return"
    /\ CatalogNames = {"Web Search", "Read Page"}

\* C5: where command discovery works, entered with a config.json that is empty or
\* holds only whitespace, get_agent_config regenerates once and returns a
\* document with every catalog command disabled, equal to the document on disk
\* when it returns.
C5_EmptyConfigRegenerated ==
    (Settled("get_agent_config") /\ last.found \in {"empty", "blank"}
        /\ ~load_commands.raised)
        => /\ last.outcome = "return"
           /\ last.regens = 1
           /\ last.value.commands = AllDisabled
           /\ fs.config[last.name].kind = "json"
           /\ last.value = DiskConfig(last.name)

C5_Witness ==
    /\ Settled("get_agent_config")
    /\ last.found = "blank"
    /\ last.outcome = "return"
    /\ CatalogNames # {}

\* later keys win
Overlay(base, over) ==
    [k \in DOMAIN base \cup DOMAIN over |-> IF k \in DOMAIN over THEN over[k] ELSE base[k]]

SettingsOf(doc) == IF "settings" \in DOMAIN doc THEN doc["settings"] ELSE EmptyDict

\* update_agent_config ran on an existing config.json
Updated(call) ==
    /\ call.op = "update_agent_config"
    /\ call.session = Facade
    /\ call.found # "absent"

\* C6: update_agent_config on an existing config.json merges; after
\* update(s1) then update(s2) the persisted settings are the settings from before
\* overlaid by s1 and then by s2, and the persisted commands map is the one from
\* before.
C6_UpdatesOverlayInOrder ==
    /\ (Settled("update_agent_config") /\ Updated(last)) => last.outcome = "updated"
    /\ (Settled("update_agent_config") /\ Updated(last) /\ Updated(prev))
          => /\ DiskConfig(last.name).settings =
                    Overlay(Overlay(SettingsOf(prev.value), prev.arg), last.arg)
             /\ DiskConfig(last.name).commands = prev.value.commands

C6_Witness ==
    /\ Settled("update_agent_config")
    /\ Updated(last)
    /\ Updated(prev)
    /\ prev.arg # last.arg
    /\ "provider" \in DOMAIN SettingsOf(prev.value)
    /\ DOMAIN prev.arg \cap DOMAIN last.arg # {}

\* C7: with no config.json for the agent, update_agent_config reports "not found"
\* and creates neither the file nor the folder.
C7_UpdateCreatesNothing ==
    (Settled("update_agent_config") /\ last.found = "absent")
        => /\ last.outcome = "not found"
           /\ ~ConfigExists(fs, last.name)
           /\ fs.folder[last.name] => last.folder

C7_Witness ==
    /\ Settled("update_agent_config")
    /\ last.found = "absent"
    /\ last.outcome = "not found"
    /\ ~fs.folder[last.name]

\* C8: on a facade whose load_memory found no memory file, every log_interaction
\* returns, and the document then on disk loads as exactly the interactions
\* logged so far, in call order.
C8_LogRoundTrip ==
    (Settled("log_interaction") /\ loaded[Facade].found = "absent")
        => /\ last.outcome = "return"
           /\ fs.memory[last.name].kind = "yaml"
           /\ YamlSafeLoad(fs.memory[last.name]) = MemoryDict(calls[Facade])

C8_Witness ==
    /\ Settled("log_interaction")
    /\ loaded[Facade].found = "absent"
    /\ Len(calls[Facade]) = MaxInteractions
    /\ calls[Facade][1] # calls[Facade][2]

\* C10: nothing merges the writes of two facades on one agent name. After a
\* log_interaction returns, the document on disk is what that facade loaded at
\* construction followed by its own appends, whatever the other facade has
\* written since; so an interaction the other facade logged is lost.
C10_LastWriterWins ==
    (last.op = "log_interaction" /\ last.outcome = "return")
        => /\ fs.memory[last.name].kind = "yaml"
           /\ YamlSafeLoad(fs.memory[last.name]).interactions =
                  loaded[last.session].memory.interactions \o calls[last.session]

\* both facades loaded the document, each logged once, one straight after the
\* other, and the first one's interaction is not on disk
C10_Witness ==
    /\ prev.op = "log_interaction" /\ prev.outcome = "return"
    /\ last.op = "log_interaction" /\ last.outcome = "return"
    /\ prev.session # last.session
    /\ \A s \in Sessions : pc[s] = "ready" /\ Len(calls[s]) = 1
    /\ calls[prev.session][1] \notin
           Range(YamlSafeLoad(fs.memory[last.name]).interactions)

\* everything on disk that belongs to agent n
Artifacts(f, n) ==
    [memory |-> f.memory[n], folder |-> f.folder[n], config |-> f.config[n],
     memories |-> f.memories[n], tasksDir |-> f.tasksDir[n], tasks |-> f.tasks[n]]

NoArtifacts ==
    [memory |-> NoMemoryFile, folder |-> FALSE, config |-> NoFile,
     memories |-> FALSE, tasksDir |-> FALSE, tasks |-> [o \in TaskFiles |-> NoTask]]

\* the step is a whole call of `op` by the facade, entered and left with the
\* facade idle
CallStep(op) ==
    /\ pc[Facade] = "ready"
    /\ pc'[Facade] = "ready"
    /\ last'.op = op
    /\ last'.session = Facade

\* C11: delete_agent of a name that has no memory file does not raise: it
\* returns the not-found result with status 404, whatever else of that name is
\* on disk.
C11_DeleteMissingIsNotFound ==
    (Settled("delete_agent") /\ ~last.hadMemory)
        => /\ last.outcome = "not found"
           /\ last.value = 404

\* no memory file, but a folder with config, memories and task outputs
C11_Witness ==
    /\ Settled("delete_agent")
    /\ ~last.hadMemory
    /\ last.folder /\ last.found = "json" /\ last.hadMemories
    /\ last.tasks["plan"].exists
    /\ last.outcome = "not found"

\* C12: delete_agent of a name whose memory file exists returns success with
\* status 200; afterwards nothing of that name is on disk (no memory document,
\* no folder, config, memories or task outputs), and everything of every other
\* name is as it was.
C12_DeleteRemovesAgentOnly ==
    [][(CallStep("delete_agent") /\ MemoryExists(fs, last'.name))
          => /\ last'.outcome = "deleted"
             /\ last'.value = 200
             /\ Artifacts(fs', last'.name) = NoArtifacts
             /\ \A m \in Names \ {last'.name} : Artifacts(fs', m) = Artifacts(fs, m)]_vars

\* a whole agent was deleted while another whole agent stayed
C12_Witness ==
    /\ Settled("delete_agent")
    /\ last.outcome = "deleted"
    /\ last.folder /\ last.found = "json" /\ last.hadMemories
    /\ last.tasks["plan"].exists
    /\ Artifacts(fs, last.name) = NoArtifacts
    /\ \E m \in Names \ {last.name} : SavedFull(fs, m)

\* C19: a delete_agent that returns not-found leaves the filesystem as it was:
\* a folder of that name, with its config, memories and task outputs, is still
\* there.
C19_NotFoundChangesNothing ==
    [][(CallStep("delete_agent") /\ last'.outcome = "not found") => fs' = fs]_vars

C19_Witness ==
    /\ Settled("delete_agent")
    /\ last.outcome = "not found"
    /\ last.folder
    /\ FolderOnly(fs, last.name)

\* the folder of agent n and what is in it
FolderOf(f, n) ==
    [folder |-> f.folder[n], config |-> f.config[n], memories |-> f.memories[n],
     tasksDir |-> f.tasksDir[n], tasks |-> f.tasks[n]]

NoFolder ==
    [folder |-> FALSE, config |-> NoFile, memories |-> FALSE, tasksDir |-> FALSE,
     tasks |-> [o \in TaskFiles |-> NoTask]]

\* C13: rename_agent(old, new) completes without error and is best-effort per
\* artifact: a memory document under old is moved to new with its content
\* unchanged, a folder under old is moved to new with what it holds, and a
\* missing memory document or folder makes its step a no-op.
C13_RenameBestEffort ==
    [][CallStep("rename_agent")
          => LET old == last'.name
                 new == last'.arg
             IN /\ last'.outcome = "return"
                /\ IF MemoryExists(fs, old)
                   THEN /\ fs'.memory[new] = fs.memory[old]
                        /\ new # old => ~MemoryExists(fs', old)
                   ELSE fs'.memory = fs.memory
                /\ IF fs.folder[old]
                   THEN /\ FolderOf(fs', new) = FolderOf(fs, old)
                        /\ new # old => FolderOf(fs', old) = NoFolder
                   ELSE \A n \in Names : FolderOf(fs', n) = FolderOf(fs, n)]_vars

\* C14: wipe_agent_memories removes the memories subfolder of the agent and
\* nothing else: memory document, config and task outputs are as before, and
\* get_chat_history yields after the wipe what it yielded before it.
C14_WipeRemovesMemoriesOnly ==
    [][CallStep("wipe_agent_memories")
          => LET n == last'.name
             IN /\ last'.outcome = "return"
                /\ ~fs'.memories[n]
                /\ fs' = [fs EXCEPT !.memories[n] = FALSE]
                /\ get_chat_history(fs', n) = get_chat_history(fs, n)]_vars

\* the chat history was read, then the memories of a whole agent were wiped
C14_Witness ==
    /\ Settled("wipe_agent_memories")
    /\ last.hadMemories
    /\ prev.op = "get_chat_history" /\ prev.name = last.name
    /\ prev.value = get_chat_history(fs, last.name)
    /\ prev.value.kind = "yaml"
    /\ ~fs.memories[last.name]
    /\ ConfigExists(fs, last.name)
    /\ fs.tasks[last.name] = SavedTasks

\* two save_task_output calls in a row for the same agent and objective
SavedTwice ==
    /\ Settled("save_task_output")
    /\ prev.op = "save_task_output" /\ prev.session = Facade
    /\ prev.name = last.name
    /\ prev.folder
    /\ prev.arg.primary_objective = last.arg.primary_objective
    /\ last.arg.primary_objective # PyNone

AfterOwnRename ==
    /\ last.op = "rename_agent"
    /\ last.session = Facade
    /\ last.name = AGENT_NAME[Facade]
    /\ last.arg # last.name

\* C18: the facade writes to the path of the name it was constructed with.
\* After it renamed its own agent (the memory document, if there was one, is
\* then gone from the old name), its next log_interaction returns and writes the
\* memory document under the old name, holding everything the facade loaded and
\* logged; the document under the new name is left as it was.
C18_LogAfterRenameUsesOldPath ==
    [][(AfterOwnRename /\ CallStep("log_interaction"))
          => /\ last.hadMemory => ~MemoryExists(fs, last.name)
             /\ last'.outcome = "return"
             /\ fs'.memory[last.name] =
                    YamlSafeDump(MemoryDict(loaded[Facade].memory.interactions
                                               \o calls'[Facade]))
             /\ fs'.memory[last.arg] = fs.memory[last.arg]]_vars

\* the facade renamed its agent, memory document included, and logged next:
\* both names now have a document and the new name's lacks the interaction
C18_Witness ==
    /\ Settled("log_interaction")
    /\ last.outcome = "return"
    /\ ~last.hadMemory
    /\ prev.op = "rename_agent" /\ prev.session = Facade
    /\ prev.name = AGENT_NAME[Facade] /\ prev.arg # prev.name
    /\ prev.hadMemory /\ prev.outcome = "return"
    /\ fs.memory[prev.name] = YamlSafeDump(memory[Facade])
    /\ fs.memory[prev.arg].kind = "yaml"
    /\ Len(fs.memory[prev.arg].items) + 1 = Len(fs.memory[prev.name].items)

\* the (display name, callable name) pairs the instances of a directory
\* declare in their commands mappings, in enumeration order
RECURSIVE Declared(_)
Declared(dir) ==
    IF dir = <<>>
    THEN <<>>
    ELSE (IF Head(dir).hasCommands
          THEN [i \in DOMAIN Head(dir).commands |->
                   <<Head(dir).commands[i].display, Head(dir).commands[i].function.name>>]
          ELSE <<>>) \o Declared(Tail(dir))

\* C16: over a directory whose modules all load, load_commands returns without
\* error, modules without a commands mapping included, and the catalog has
\* exactly one entry per entry of the commands mappings, in order: N entries
\* for one module with N commands and one module without the mapping.
C16_OneEntryPerCommand ==
    (last.op = "load_commands" /\ \A module \in Range(commandsDir) : module.loads)
        => /\ last.outcome = "return"
           /\ Len(last.value) = Len(Declared(commandsDir))
           /\ \A i \in DOMAIN last.value :
                  <<last.value[i][1], last.value[i][2]>> = Declared(commandsDir)[i]

\* one module with two commands, one module without a commands mapping
C16_Witness ==
    /\ last.op = "load_commands"
    /\ Len(commandsDir) = 2
    /\ \E i, j \in DOMAIN commandsDir :
          /\ commandsDir[i].hasCommands /\ Len(commandsDir[i].commands) = 2
          /\ commandsDir[j].loads /\ ~commandsDir[j].hasCommands
    /\ last.outcome = "return"
    /\ Len(last.value) = 2

\* C17: when a module of the directory fails to import or instantiate,
\* load_commands ends with the error and yields no catalog, whatever the other
\* modules declare.
C17_DiscoveryAllOrNothing ==
    (last.op = "load_commands" /\ \E module \in Range(commandsDir) : ~module.loads)
        => /\ last.outcome = "raise"
           /\ last.value = <<>>

\* the failing module comes after a module whose commands were already collected
C17_Witness ==
    /\ last.op = "load_commands"
    /\ \E i, j \in DOMAIN commandsDir :
          /\ i < j
          /\ commandsDir[i].hasCommands
          /\ ~commandsDir[j].loads
    /\ last.outcome = "raise"

\* C20: after a construction that returns, each of AI_MODEL, AI_TEMPERATURE and
\* MAX_TOKENS that the resolved config's settings hold is a field of the facade
\* with the settings' value, and a key the settings do not hold was not set
\* from them (AI_MODEL then has one of the built-in model names).
C20_SettingsOverridesApplied ==
    (Settled("__init__") /\ last.outcome = "return"
        /\ "settings" \in DOMAIN AGENT_CONFIG[Facade])
        => \A key \in {"AI_MODEL", "AI_TEMPERATURE", "MAX_TOKENS"} :
              IF key \in DOMAIN AGENT_CONFIG[Facade]["settings"]
              THEN /\ key \in DOMAIN attrs[Facade]
                   /\ attrs[Facade][key] = AGENT_CONFIG[Facade]["settings"][key]
              ELSE key \in DOMAIN attrs[Facade]
                       => attrs[Facade][key] \in {PyStr("openassistant"), PyStr("default")}

====
